---- MODULE Spec2Model ----
(***************************************************************************)
(* The conversation-history hook (useHistory) of pluely and the Dashboard  *)
(* page that drives its batch selection.  One action per handler of the    *)
(* hook; an async handler is split at each await into the call and the     *)
(* continuation that runs when the store's promise settles.               *)
(***************************************************************************)
EXTENDS Bags, FiniteSets, Integers, Sequences, TLC

\* ---- bounds -------------------------------------------------------------
NumIds == 2          \* conversation identifiers are 1..NumIds
MaxPending == 1      \* async handler invocations suspended at an await
MaxRefresh == 2      \* the same, where refreshConversations is re-entered
MaxTimers == 3       \* setTimeout callbacks armed and not yet fired
MaxPrefix == 2       \* a title: this many arbitrary characters at most,
MaxPad == 17         \*   then this many times the same letter at most
MaxMessages == 2     \* messages of an exported conversation

Ids == 1..NumIds
Null == 0            \* the null of "string | null"

VARIABLES
  conversations,          \* ChatConversation[], by id, in list order
  isLoading,
  selectedConversationId,
  viewingConversation,
  deleteConfirm,
  isSelectionMode,
  selectedIds,            \* Set<string>: ids in insertion (= iteration) order
  batchDeleteConfirm,
  store,                  \* ids the external store holds
  pending,                \* bag of suspended async invocations (closures)
  called,                 \* store calls issued by the step just taken
  dispatched,             \* "conversationDeleted" payloads it dispatched
  downloadedConversations,\* Set<string>: the "recently downloaded" marks
  isDownloaded,
  timers,                 \* armed setTimeout callbacks, in arming order
  exported,               \* the ChatConversation handed to the export helpers
  markdown,               \* what generateConversationMarkdown returned
  filename                \* what generateFilename returned

hook == <<conversations, isLoading, selectedConversationId,
          viewingConversation, deleteConfirm, isSelectionMode, selectedIds,
          batchDeleteConfirm>>
\* the download marks and their timers
download == <<downloadedConversations, isDownloaded, timers>>
\* the export helpers' argument and results
export == <<exported, markdown, filename>>
vars == <<conversations, isLoading, selectedConversationId,
          viewingConversation, deleteConfirm, isSelectionMode, selectedIds,
          batchDeleteConfirm, store, pending, called, dispatched,
          downloadedConversations, isDownloaded, timers,
          exported, markdown, filename>>

\* ---- helpers ------------------------------------------------------------
Has(s, x) == \E k \in 1..Len(s) : s[k] = x

\* faulty variant: the comparison inverted, prev.filter((c) => c.id === id)
FilterOut_keepsMatch(s, id) == SelectSeq(s, LAMBDA c : c = id)

\* prev.filter((c) => c.id !== id)
FilterOut(s, id) == SelectSeq(s, LAMBDA c : c # id)

\* faulty variant: the negation dropped, prev.filter((c) => sel.has(c.id))
FilterOutAll_keepsSelected(s, sel) == SelectSeq(s, LAMBDA c : Has(sel, c))

\* prev.filter((c) => !sel.has(c.id))
FilterOutAll(s, sel) == SelectSeq(s, LAMBDA c : ~Has(sel, c))

Min(S) == CHOOSE x \in S : \A y \in S : x <= y

RECURSIVE ListOf(_)
\* the store lists what it holds in its own fixed order
ListOf(S) == IF S = {} THEN <<>> ELSE <<Min(S)>> \o ListOf(S \ {Min(S)})

\* newSet.has(id) ? newSet.delete(id) : newSet.add(id)
Toggle(s, id) == IF Has(s, id) THEN FilterOut(s, id) ELSE Append(s, id)

RECURSIVE Dedup(_)
\* new Set(array): first occurrence of each element, in order
Dedup(s) ==
  IF s = <<>> THEN <<>>
  ELSE LET r == Dedup(SubSeq(s, 1, Len(s) - 1))
       IN IF Has(r, s[Len(s)]) THEN r ELSE Append(r, s[Len(s)])

\* ---- suspended invocations ---------------------------------------------
\* An async handler waiting at an await, with what its closure captured:
\* id = deleteConfirm, sel = selectedIds, issued/returned = store calls it
\* has made / that have settled, res and data = how getAllConversations()
\* settled.
RefreshCont == [kind |-> "refresh", id |-> Null, sel |-> <<>>, issued |-> 1,
                returned |-> 0, res |-> "pending", data |-> <<>>]

DeleteCont(id) == [kind |-> "delete", id |-> id, sel |-> <<>>, issued |-> 1,
                   returned |-> 0, res |-> "pending", data |-> <<>>]

BatchCont(sel) == [kind |-> "batch", id |-> Null, sel |-> sel,
                   issued |-> 1, returned |-> 0, res |-> "pending",
                   data |-> <<>>]

Suspend(c) == pending (+) SetToBag({c})
Drop(c) == pending (-) SetToBag({c})
Conts == BagToSet(pending)
Room == BagCardinality(pending) < MaxPending
RefreshRoom == BagCardinality(pending) < MaxRefresh

GetAll == [op |-> "getAllConversations", id |-> Null]
Delete(id) == [op |-> "deleteConversation", id |-> id]

Quiet == called' = <<>> /\ dispatched' = <<>>

\* ---- initial state: first render, mount effect has called refresh -------
Mounted ==
  /\ conversations = <<>>
  /\ isLoading = TRUE
  /\ selectedConversationId = Null
  /\ viewingConversation = Null
  /\ deleteConfirm = Null
  /\ isSelectionMode = FALSE
  /\ selectedIds = <<>>
  /\ batchDeleteConfirm = FALSE
  /\ store = Ids
  /\ pending = SetToBag({RefreshCont})
  /\ called = <<GetAll>>
  /\ dispatched = <<>>
  /\ downloadedConversations = {}
  /\ isDownloaded = FALSE
  /\ timers = <<>>

\* no export helper has been called yet
Init ==
  /\ Mounted
  /\ exported = Null
  /\ markdown = <<>>
  /\ filename = <<>>

\* ---- the external store -------------------------------------------------
\* Store.listAll(): settles a getAllConversations() promise
StoreGetAll(c, ok) ==
  /\ UNCHANGED <<download, export>>
  /\ c \in Conts /\ c.kind = "refresh" /\ c.res = "pending"
  /\ pending' = Drop(c) (+) SetToBag({
       [c EXCEPT !.returned = 1,
                 !.res = IF ok THEN "ok" ELSE "err",
                 !.data = IF ok THEN ListOf(store) ELSE <<>>]})
  /\ Quiet
  /\ UNCHANGED <<hook, store>>

\* ---- conversation cache -------------------------------------------------
refreshConversations ==
  /\ UNCHANGED <<download, export>>
  /\ isLoading' = TRUE
  /\ pending' = Suspend(RefreshCont)
  /\ called' = <<GetAll>>
  /\ dispatched' = <<>>
  /\ UNCHANGED <<conversations, selectedConversationId, viewingConversation,
                 deleteConfirm, isSelectionMode, selectedIds,
                 batchDeleteConfirm, store>>

\* faulty variant: the catch block leaves the cached list as it was
refreshResume_keepsListOnFailure(c) ==
  /\ UNCHANGED <<download, export>>
  /\ c \in Conts /\ c.kind = "refresh" /\ c.res # "pending"
  /\ conversations' = IF c.res = "ok" THEN c.data ELSE conversations
  /\ isLoading' = FALSE
  /\ pending' = Drop(c)
  /\ Quiet
  /\ UNCHANGED <<selectedConversationId, viewingConversation, deleteConfirm,
                 isSelectionMode, selectedIds, batchDeleteConfirm, store>>

\* after the await of refreshConversations, then catch and finally
refreshResume(c) ==
  /\ UNCHANGED <<download, export>>
  /\ c \in Conts /\ c.kind = "refresh" /\ c.res # "pending"
  /\ conversations' = IF c.res = "ok" THEN c.data ELSE <<>>
  /\ isLoading' = FALSE
  /\ pending' = Drop(c)
  /\ Quiet
  /\ UNCHANGED <<selectedConversationId, viewingConversation, deleteConfirm,
                 isSelectionMode, selectedIds, batchDeleteConfirm, store>>

\* ---- single-item flow ---------------------------------------------------
handleViewConversation(conversation) ==
  /\ UNCHANGED <<download, export>>
  /\ viewingConversation' = conversation
  /\ Quiet
  /\ UNCHANGED <<conversations, isLoading, selectedConversationId,
                 deleteConfirm, isSelectionMode, selectedIds,
                 batchDeleteConfirm, store, pending>>

\* faulty variant: deletes at once, without waiting for the confirmation
handleDeleteConfirm_deletesAtOnce(conversationId) ==
  /\ UNCHANGED <<download, export>>
  /\ Room
  /\ deleteConfirm' = conversationId
  /\ pending' = Suspend(DeleteCont(conversationId))
  /\ called' = <<Delete(conversationId)>>
  /\ dispatched' = <<>>
  /\ UNCHANGED <<conversations, isLoading, selectedConversationId,
                 viewingConversation, isSelectionMode, selectedIds,
                 batchDeleteConfirm, store>>

handleDeleteConfirm(conversationId) ==
  /\ UNCHANGED <<download, export>>
  /\ deleteConfirm' = conversationId
  /\ Quiet
  /\ UNCHANGED <<conversations, isLoading, selectedConversationId,
                 viewingConversation, isSelectionMode, selectedIds,
                 batchDeleteConfirm, store, pending>>

\* faulty variant: the viewing slot is not cleared before the store call
confirmDelete_keepsViewing ==
  /\ UNCHANGED <<download, export>>
  /\ dispatched' = <<>>
  /\ IF deleteConfirm = Null
     THEN /\ called' = <<>>
          /\ UNCHANGED <<hook, store, pending>>
     ELSE /\ Room
          /\ selectedConversationId' = Null
          /\ pending' = Suspend(DeleteCont(deleteConfirm))
          /\ called' = <<Delete(deleteConfirm)>>
          /\ UNCHANGED <<conversations, isLoading, deleteConfirm,
                         viewingConversation, isSelectionMode, selectedIds,
                         batchDeleteConfirm, store>>

confirmDelete ==
  /\ UNCHANGED <<download, export>>
  /\ dispatched' = <<>>
  /\ IF deleteConfirm = Null
     THEN /\ called' = <<>>
          /\ UNCHANGED <<hook, store, pending>>
     ELSE /\ Room
          /\ selectedConversationId' = Null
          /\ viewingConversation' = Null
          /\ pending' = Suspend(DeleteCont(deleteConfirm))
          /\ called' = <<Delete(deleteConfirm)>>
          /\ UNCHANGED <<conversations, isLoading, deleteConfirm,
                         isSelectionMode, selectedIds, batchDeleteConfirm,
                         store>>

\* faulty variant: the event is dispatched in the finally block
confirmDeleteResume_broadcastsAnyway(c, ok) ==
  /\ UNCHANGED <<download, export>>
  /\ c \in Conts /\ c.kind = "delete"
  /\ store' = IF ok THEN store \ {c.id} ELSE store
  /\ conversations' = IF ok THEN FilterOut(conversations, c.id)
                      ELSE conversations
  /\ dispatched' = <<c.id>>
  /\ deleteConfirm' = Null
  /\ pending' = Drop(c)
  /\ called' = <<>>
  /\ UNCHANGED <<isLoading, selectedConversationId, viewingConversation,
                 isSelectionMode, selectedIds, batchDeleteConfirm>>

\* deleteConversation(id) settles and confirmDelete runs on from its await:
\* the rest of the try block, or catch; then finally
confirmDeleteResume(c, ok) ==
  /\ UNCHANGED <<download, export>>
  /\ c \in Conts /\ c.kind = "delete"
  /\ store' = IF ok THEN store \ {c.id} ELSE store
  /\ IF ok
     THEN /\ conversations' = FilterOut(conversations, c.id)
          /\ dispatched' = <<c.id>>
     ELSE /\ dispatched' = <<>>
          /\ UNCHANGED conversations
  /\ deleteConfirm' = Null
  /\ pending' = Drop(c)
  /\ called' = <<>>
  /\ UNCHANGED <<isLoading, selectedConversationId, viewingConversation,
                 isSelectionMode, selectedIds, batchDeleteConfirm>>

cancelDelete ==
  /\ UNCHANGED <<download, export>>
  /\ deleteConfirm' = Null
  /\ Quiet
  /\ UNCHANGED <<conversations, isLoading, selectedConversationId,
                 viewingConversation, isSelectionMode, selectedIds,
                 batchDeleteConfirm, store, pending>>

\* ---- batch selection ----------------------------------------------------
\* faulty variant: the selection is not reset when the mode is flipped
toggleSelectionMode_keepsSelection ==
  /\ UNCHANGED <<download, export>>
  /\ isSelectionMode' = ~isSelectionMode
  /\ Quiet
  /\ UNCHANGED <<conversations, isLoading, selectedConversationId,
                 viewingConversation, deleteConfirm, selectedIds,
                 batchDeleteConfirm, store, pending>>

\* faulty variant: the mode is switched on instead of flipped
toggleSelectionMode_switchesOn ==
  /\ UNCHANGED <<download, export>>
  /\ isSelectionMode' = TRUE
  /\ selectedIds' = <<>>
  /\ Quiet
  /\ UNCHANGED <<conversations, isLoading, selectedConversationId,
                 viewingConversation, deleteConfirm, batchDeleteConfirm,
                 store, pending>>

toggleSelectionMode ==
  /\ UNCHANGED <<download, export>>
  /\ isSelectionMode' = ~isSelectionMode
  /\ selectedIds' = <<>>
  /\ Quiet
  /\ UNCHANGED <<conversations, isLoading, selectedConversationId,
                 viewingConversation, deleteConfirm, batchDeleteConfirm,
                 store, pending>>

toggleSelectItem(id) ==
  /\ UNCHANGED <<download, export>>
  /\ selectedIds' = Toggle(selectedIds, id)
  /\ Quiet
  /\ UNCHANGED <<conversations, isLoading, selectedConversationId,
                 viewingConversation, deleteConfirm, isSelectionMode,
                 batchDeleteConfirm, store, pending>>

selectAll ==
  /\ UNCHANGED <<download, export>>
  /\ selectedIds' = Dedup(conversations)
  /\ Quiet
  /\ UNCHANGED <<conversations, isLoading, selectedConversationId,
                 viewingConversation, deleteConfirm, isSelectionMode,
                 batchDeleteConfirm, store, pending>>

deselectAll ==
  /\ UNCHANGED <<download, export>>
  /\ selectedIds' = <<>>
  /\ Quiet
  /\ UNCHANGED <<conversations, isLoading, selectedConversationId,
                 viewingConversation, deleteConfirm, isSelectionMode,
                 batchDeleteConfirm, store, pending>>

\* faulty variant: the dialog is opened without looking at the selection
handleBatchDeleteConfirm_unguarded ==
  /\ UNCHANGED <<download, export>>
  /\ batchDeleteConfirm' = TRUE
  /\ Quiet
  /\ UNCHANGED <<conversations, isLoading, selectedConversationId,
                 viewingConversation, deleteConfirm, isSelectionMode,
                 selectedIds, store, pending>>

handleBatchDeleteConfirm ==
  /\ UNCHANGED <<download, export>>
  /\ batchDeleteConfirm' = IF Len(selectedIds) > 0 THEN TRUE
                           ELSE batchDeleteConfirm
  /\ Quiet
  /\ UNCHANGED <<conversations, isLoading, selectedConversationId,
                 viewingConversation, deleteConfirm, isSelectionMode,
                 selectedIds, store, pending>>

\* faulty variant: all deletes are issued together (Promise.all) instead of
\* one after the other
confirmBatchDelete_allAtOnce ==
  /\ UNCHANGED <<download, export>>
  /\ dispatched' = <<>>
  /\ IF Len(selectedIds) = 0
     THEN /\ called' = <<>>
          /\ UNCHANGED <<hook, store, pending>>
     ELSE /\ Room
          /\ pending' = Suspend([BatchCont(selectedIds)
                                   EXCEPT !.issued = Len(selectedIds)])
          /\ called' = [k \in 1..Len(selectedIds) |-> Delete(selectedIds[k])]
          /\ UNCHANGED <<hook, store>>

\* faulty variant: the empty-selection check sits inside the try block, so
\* the finally clause closes the dialog
confirmBatchDelete_closesWhenEmpty ==
  /\ UNCHANGED <<download, export>>
  /\ dispatched' = <<>>
  /\ IF Len(selectedIds) = 0
     THEN /\ called' = <<>>
          /\ batchDeleteConfirm' = FALSE
          /\ UNCHANGED <<conversations, isLoading, selectedConversationId,
                         viewingConversation, deleteConfirm, isSelectionMode,
                         selectedIds, store, pending>>
     ELSE /\ Room
          /\ pending' = Suspend(BatchCont(selectedIds))
          /\ called' = <<Delete(selectedIds[1])>>
          /\ UNCHANGED <<hook, store>>

confirmBatchDelete ==
  /\ UNCHANGED <<download, export>>
  /\ dispatched' = <<>>
  /\ IF Len(selectedIds) = 0
     THEN /\ called' = <<>>
          /\ UNCHANGED <<hook, store, pending>>
     ELSE /\ Room
          /\ pending' = Suspend(BatchCont(selectedIds))
          /\ called' = <<Delete(selectedIds[1])>>
          /\ UNCHANGED <<hook, store>>

\* the identifier whose deleteConversation() call c is awaiting
Awaited(c) == c.sel[c.returned + 1]

\* faulty variant: on a failure the identifiers attempted so far are removed
\* from the cached list and broadcast all the same
confirmBatchDeleteResume_cleansUpOnFailure(c, ok) ==
  /\ UNCHANGED <<download, export>>
  /\ c \in Conts /\ c.kind = "batch" /\ c.returned < c.issued
  /\ store' = IF ok THEN store \ {Awaited(c)} ELSE store
  /\ IF ok /\ c.issued < Len(c.sel)
     THEN /\ pending' = Drop(c) (+) SetToBag({
               [c EXCEPT !.returned = c.returned + 1,
                         !.issued = c.issued + 1]})
          /\ called' = <<Delete(c.sel[c.issued + 1])>>
          /\ dispatched' = <<>>
          /\ UNCHANGED hook
     ELSE /\ pending' = Drop(c)
          /\ called' = <<>>
          /\ batchDeleteConfirm' = FALSE
          /\ conversations' =
               FilterOutAll(conversations, SubSeq(c.sel, 1, c.issued))
          /\ dispatched' = SubSeq(c.sel, 1, c.issued)
          /\ selectedIds' = <<>>
          /\ isSelectionMode' = FALSE
          /\ UNCHANGED <<isLoading, selectedConversationId,
                         viewingConversation, deleteConfirm>>

\* faulty variant: no finally clause, the dialog is closed on success only
confirmBatchDeleteResume_noFinally(c, ok) ==
  /\ UNCHANGED <<download, export>>
  /\ c \in Conts /\ c.kind = "batch" /\ c.returned < c.issued
  /\ store' = IF ok THEN store \ {Awaited(c)} ELSE store
  /\ IF ok /\ c.issued < Len(c.sel)
     THEN /\ pending' = Drop(c) (+) SetToBag({
               [c EXCEPT !.returned = c.returned + 1,
                         !.issued = c.issued + 1]})
          /\ called' = <<Delete(c.sel[c.issued + 1])>>
          /\ dispatched' = <<>>
          /\ UNCHANGED hook
     ELSE /\ pending' = Drop(c)
          /\ called' = <<>>
          /\ IF ok
             THEN /\ conversations' = FilterOutAll(conversations, c.sel)
                  /\ dispatched' = c.sel
                  /\ selectedIds' = <<>>
                  /\ isSelectionMode' = FALSE
                  /\ batchDeleteConfirm' = FALSE
             ELSE /\ dispatched' = <<>>
                  /\ UNCHANGED <<conversations, selectedIds, isSelectionMode,
                                 batchDeleteConfirm>>
          /\ UNCHANGED <<isLoading, selectedConversationId,
                         viewingConversation, deleteConfirm>>

\* the awaited deleteConversation(id) of the loop settles and
\* confirmBatchDelete runs on: the next turn of the loop, or the rest of the
\* try block, or catch; then finally
confirmBatchDeleteResume(c, ok) ==
  /\ UNCHANGED <<download, export>>
  /\ c \in Conts /\ c.kind = "batch" /\ c.returned < c.issued
  /\ store' = IF ok THEN store \ {Awaited(c)} ELSE store
  /\ IF ok /\ c.issued < Len(c.sel)
     THEN /\ pending' = Drop(c) (+) SetToBag({
               [c EXCEPT !.returned = c.returned + 1,
                         !.issued = c.issued + 1]})
          /\ called' = <<Delete(c.sel[c.issued + 1])>>
          /\ dispatched' = <<>>
          /\ UNCHANGED hook
     ELSE /\ pending' = Drop(c)
          /\ called' = <<>>
          /\ batchDeleteConfirm' = FALSE
          /\ IF ok
             THEN /\ conversations' = FilterOutAll(conversations, c.sel)
                  /\ dispatched' = c.sel
                  /\ selectedIds' = <<>>
                  /\ isSelectionMode' = FALSE
             ELSE /\ dispatched' = <<>>
                  /\ UNCHANGED <<conversations, selectedIds, isSelectionMode>>
          /\ UNCHANGED <<isLoading, selectedConversationId,
                         viewingConversation, deleteConfirm>>

cancelBatchDelete ==
  /\ UNCHANGED <<download, export>>
  /\ batchDeleteConfirm' = FALSE
  /\ Quiet
  /\ UNCHANGED <<conversations, isLoading, selectedConversationId,
                 viewingConversation, deleteConfirm, isSelectionMode,
                 selectedIds, store, pending>>

\* ---- downloads -----------------------------------------------------------
\* The callbacks armed with setTimeout(..., DOWNLOAD_SUCCESS_DISPLAY_MS): all
\* have the same delay, so they fire in the order they were armed.
MarkTimer(id) == [clears |-> "downloadedConversations", id |-> id]
FlagTimer == [clears |-> "isDownloaded", id |-> Null]

\* downloadedConversations when handleDownloadConversation returns: the
\* identifier is added before the try block and deleted again in catch
MarksAfter(conversation, throws) ==
  IF throws
  THEN (downloadedConversations \cup {conversation}) \ {conversation}
  ELSE downloadedConversations \cup {conversation}

\* the timers handleDownloadConversation has armed when it returns: catch
\* returns before the setTimeout
ArmedAfter(conversation, throws) ==
  IF throws THEN <<>> ELSE <<MarkTimer(conversation)>>

\* faulty variant: the timer is armed before the try block
handleDownloadConversation_armsFirst(conversation, throws) ==
  /\ Len(timers) < MaxTimers
  /\ downloadedConversations' = MarksAfter(conversation, throws)
  /\ timers' = Append(timers, MarkTimer(conversation))
  /\ Quiet
  /\ UNCHANGED <<hook, store, pending, isDownloaded, export>>

\* throws: generating the document or saving it throws
handleDownloadConversation(conversation, throws) ==
  /\ Len(timers) + Len(ArmedAfter(conversation, throws)) <= MaxTimers
  /\ downloadedConversations' = MarksAfter(conversation, throws)
  /\ timers' = timers \o ArmedAfter(conversation, throws)
  /\ Quiet
  /\ UNCHANGED <<hook, store, pending, isDownloaded, export>>

\* conversation may be null; handleDownloadConversation catches what the
\* export throws, so the statements after the call run either way
handleDownload(conversation, throws) ==
  /\ Quiet
  /\ UNCHANGED <<hook, store, pending, export>>
  /\ IF conversation = Null
     THEN UNCHANGED download
     ELSE /\ Len(timers) + Len(ArmedAfter(conversation, throws)) < MaxTimers
          /\ downloadedConversations' = MarksAfter(conversation, throws)
          /\ isDownloaded' = TRUE
          /\ timers' = timers \o ArmedAfter(conversation, throws)
                            \o <<FlagTimer>>

\* the oldest armed timer fires and runs its callback
timerFires ==
  /\ timers # <<>>
  /\ timers' = Tail(timers)
  /\ IF Head(timers).clears = "isDownloaded"
     THEN /\ isDownloaded' = FALSE
          /\ UNCHANGED downloadedConversations
     ELSE /\ downloadedConversations' =
               downloadedConversations \ {Head(timers).id}
          /\ UNCHANGED isDownloaded
  /\ Quiet
  /\ UNCHANGED <<hook, store, pending, export>>

\* ---- export helpers ------------------------------------------------------
\* A string is the sequence of its pieces: single characters (UTF-16 code
\* units) in titles and message contents, and the literal parts of the
\* templates; "\n" is the line break.
Uppers == <<"A", "B", "C", "D", "E", "F", "G", "H", "I", "J", "K", "L", "M",
            "N", "O", "P", "Q", "R", "S", "T", "U", "V", "W", "X", "Y", "Z">>
Lowers == <<"a", "b", "c", "d", "e", "f", "g", "h", "i", "j", "k", "l", "m",
            "n", "o", "p", "q", "r", "s", "t", "u", "v", "w", "x", "y", "z">>
Digits == {"0", "1", "2", "3", "4", "5", "6", "7", "8", "9"}

\* what /[^a-z0-9]/gi does not match: with the i flag (and no u flag) the
\* class a-z also covers A-Z, and no character outside ASCII
Alphanumeric(ch) == ch \in Digits \/ Has(Lowers, ch) \/ Has(Uppers, ch)

\* faulty variant: the i flag missing, /[^a-z0-9]/g
replace_caseSensitive(title) ==
  [k \in 1..Len(title) |->
     IF title[k] \in Digits \/ Has(Lowers, title[k]) THEN title[k] ELSE "_"]

\* title.replace(/[^a-z0-9]/gi, "_")
replace(title) ==
  [k \in 1..Len(title) |-> IF Alphanumeric(title[k]) THEN title[k] ELSE "_"]

\* String.prototype.toLowerCase, character by character
toLowerCase(str) ==
  [k \in 1..Len(str) |->
     IF Has(Uppers, str[k])
     THEN Lowers[CHOOSE i \in 1..Len(Uppers) : Uppers[i] = str[k]]
     ELSE IF str[k] = "É" THEN "é" ELSE str[k]]

\* String.prototype.toUpperCase of a message role
toUpperCase(role) ==
  CASE role = "user" -> "USER"
    [] role = "assistant" -> "ASSISTANT"
    [] role = "system" -> "SYSTEM"

\* str.substring(0, end)
substring(str, end) ==
  SubSeq(str, 1, IF Len(str) < end THEN Len(str) ELSE end)

NameLength == 16

generateFilename(title) ==
  LET sanitizedTitle == toLowerCase(replace(title))
  IN substring(sanitizedTitle, NameLength) \o <<".", "m", "d">>

\* new Date(timestamp).toLocaleString(): some text on one line
toLocaleString(timestamp) == <<ToString(timestamp)>>

\* faulty variant: a line break is appended after every message, the last
\* one included
generateConversationMarkdown_blankAfterEach(conversation) ==
  LET RECURSIVE forEach(_)
      forEach(index) ==
        IF index > Len(conversation.messages) THEN <<>>
        ELSE <<"## ", toUpperCase(conversation.messages[index].role), ": ">>
               \o conversation.messages[index].content \o <<"\n">>
               \o <<"\n">>
               \o forEach(index + 1)
  IN <<"# ">> \o conversation.title \o <<"\n", "\n">>
       \o <<"**Created:** ">> \o toLocaleString(conversation.createdAt)
       \o <<"\n">>
       \o <<"**Updated:** ">> \o toLocaleString(conversation.updatedAt)
       \o <<"\n">>
       \o <<"**Messages:** ", ToString(Len(conversation.messages))>>
       \o <<"\n", "\n", "---", "\n", "\n">>
       \o forEach(1)

\* index counts from 1 here, from 0 in the source
generateConversationMarkdown(conversation) ==
  LET RECURSIVE forEach(_)
      forEach(index) ==
        IF index > Len(conversation.messages) THEN <<>>
        ELSE <<"## ", toUpperCase(conversation.messages[index].role), ": ">>
               \o conversation.messages[index].content \o <<"\n">>
               \o (IF index < Len(conversation.messages)
                   THEN <<"\n">> ELSE <<>>)
               \o forEach(index + 1)
  IN <<"# ">> \o conversation.title \o <<"\n", "\n">>
       \o <<"**Created:** ">> \o toLocaleString(conversation.createdAt)
       \o <<"\n">>
       \o <<"**Updated:** ">> \o toLocaleString(conversation.updatedAt)
       \o <<"\n">>
       \o <<"**Messages:** ", ToString(Len(conversation.messages))>>
       \o <<"\n", "\n", "---", "\n", "\n">>
       \o forEach(1)

\* the conversations handed to the helpers
TitleChars == {"a", "Q", "7", "_", " ", ".", "É"}
ExampleTitle == <<"H", "e", "l", "l", "o", ",", " ", "W", "o", "r", "l", "d",
                  "!", " ", "2", "0", "2", "4">>
TestTitle == <<"T", "e", "s", "t", "/", "C", "h", "a", "t", "?">>
Titles ==
  {ExampleTitle} \cup
  { prefix \o [k \in 1..n |-> "x"] :
      prefix \in UNION { [1..m -> TitleChars] : m \in 0..MaxPrefix },
      n \in 0..MaxPad }
Contents == { <<"H", "i">>, <<"H", "e", "l", "l", "o">>,
              <<"a", "\n", "b">>, <<"a", "\n", "\n", "b">> }
Messages ==
  UNION { [1..n -> [role : {"user", "assistant"}, content : Contents]] :
            n \in 0..MaxMessages }
Exports ==
  { [title |-> t, createdAt |-> 1, updatedAt |-> 2, messages |-> <<>>] :
      t \in Titles } \cup
  { [title |-> TestTitle, createdAt |-> 1, updatedAt |-> 2, messages |-> m] :
      m \in Messages }

\* a helper is about to be called with one of them
InitExport ==
  /\ Mounted
  /\ exported \in Exports
  /\ markdown = <<>>
  /\ filename = <<>>

\* const markdown = generateConversationMarkdown(conversation)
createMarkdown ==
  /\ markdown' = generateConversationMarkdown(exported)
  /\ UNCHANGED <<hook, store, pending, called, dispatched, download,
                 exported, filename>>

\* link.download = generateFilename(conversation.title)
setLinkDownload ==
  /\ filename' = generateFilename(exported.title)
  /\ UNCHANGED <<hook, store, pending, called, dispatched, download,
                 exported, markdown>>

\* ---- specifications ----------------------------------------------------
\* the store answering, and the cache loader: part of every specification
Cache ==
  \/ \E c \in Conts, ok \in BOOLEAN : StoreGetAll(c, ok)
  \/ Room /\ refreshConversations
  \/ \E c \in Conts : refreshResume(c)

SingleItem ==
  \/ \E conversation \in Ids : handleViewConversation(conversation)
  \/ \E conversationId \in Ids : handleDeleteConfirm(conversationId)
  \/ confirmDelete
  \/ \E c \in Conts, ok \in BOOLEAN : confirmDeleteResume(c, ok)
  \/ cancelDelete

BatchSelection ==
  \/ toggleSelectionMode
  \/ \E id \in Ids : toggleSelectItem(id)
  \/ selectAll
  \/ deselectAll
  \/ handleBatchDeleteConfirm
  \/ confirmBatchDelete
  \/ \E c \in Conts, ok \in BOOLEAN : confirmBatchDeleteResume(c, ok)
  \/ cancelBatchDelete

\* the whole hook, driven by any caller
Next == Cache \/ SingleItem \/ BatchSelection
Spec == Init /\ [][Next]_vars

\* the single-item flow over the cache (selection state stays initial)
NextSingle == Cache \/ SingleItem
SpecSingle == Init /\ [][NextSingle]_vars

\* the batch-selection flow over the cache (single-item state stays initial)
NextBatch == Cache \/ BatchSelection
SpecBatch == Init /\ [][NextBatch]_vars

\* refreshConversations re-entered while earlier calls are in flight (the
\* hook has no guard against it), over the single-item flow
Reentrant ==
  \/ \E c \in Conts, ok \in BOOLEAN : StoreGetAll(c, ok)
  \/ RefreshRoom /\ refreshConversations
  \/ \E c \in Conts : refreshResume(c)

NextRefresh == Reentrant \/ SingleItem
SpecRefresh == Init /\ [][NextRefresh]_vars

Download ==
  \/ \E conversation \in Ids, throws \in BOOLEAN :
       handleDownloadConversation(conversation, throws)
  \/ \E conversation \in Ids \cup {Null}, throws \in BOOLEAN :
       handleDownload(conversation, throws)
  \/ timerFires

\* the downloads over the cache
NextDownload == Cache \/ Download
SpecDownload == Init /\ [][NextDownload]_vars

\* the export helpers, each applied to a conversation
NextExport == createMarkdown \/ setLinkDownload
SpecExport == InitExport /\ [][NextExport]_vars

\* ---- the Dashboard page: its controls over the hook --------------------
\* The toolbar and the cards are rendered only while the list is non-empty;
\* the dialog whenever batchDeleteConfirm is true.
SelectButton ==
  /\ Len(conversations) # 0 /\ ~isSelectionMode
  /\ toggleSelectionMode

CancelButton ==
  /\ Len(conversations) # 0 /\ isSelectionMode
  /\ toggleSelectionMode

SelectAllButton ==
  /\ Len(conversations) # 0 /\ isSelectionMode
  /\ IF Len(selectedIds) = Len(conversations) THEN deselectAll ELSE selectAll

DeleteButton ==
  /\ Len(conversations) # 0 /\ isSelectionMode
  /\ Len(selectedIds) # 0
  /\ handleBatchDeleteConfirm

\* a click on a card or on its checkbox, in selection mode
CardClick(doc) ==
  /\ Has(conversations, doc) /\ isSelectionMode
  /\ toggleSelectItem(doc)

DialogCancel == batchDeleteConfirm /\ cancelBatchDelete

DialogConfirm == batchDeleteConfirm /\ confirmBatchDelete

NextDashboard ==
  \/ \E c \in Conts, ok \in BOOLEAN : StoreGetAll(c, ok)
  \/ \E c \in Conts : refreshResume(c)
  \/ SelectButton
  \/ CancelButton
  \/ SelectAllButton
  \/ DeleteButton
  \/ \E doc \in Ids : CardClick(doc)
  \/ DialogCancel
  \/ DialogConfirm
  \/ \E c \in Conts, ok \in BOOLEAN : confirmBatchDeleteResume(c, ok)
SpecDashboard == Init /\ [][NextDashboard]_vars

\* a page that selects through the Dashboard's controls, so only
\* conversations it lists, and also reloads the list and deletes single
\* conversations
NextListed ==
  \/ NextDashboard
  \/ Room /\ refreshConversations
  \/ SingleItem
SpecListed == Init /\ [][NextListed]_vars

\* ---- claims -------------------------------------------------------------
\* Settled invocations: in this model the store's promise settles and the
\* handler runs on from its await in one step (nothing else can run between
\* the two), so "once the call has returned" is the state after that step.

C2_BatchDeleteCompletes ==
  [][ /\ (confirmBatchDelete /\ Len(selectedIds) > 0
            => /\ dispatched' = <<>>
               /\ pending' = Suspend(BatchCont(selectedIds)))
      /\ \A c \in Conts :
           confirmBatchDeleteResume(c, TRUE)
             => IF c.returned + 1 < Len(c.sel)
                THEN dispatched' = <<>>
                ELSE /\ \A k \in 1..Len(c.sel) :
                          ~Has(conversations', c.sel[k])
                     /\ dispatched' = c.sel
                     /\ selectedIds' = <<>>
                     /\ ~isSelectionMode'
                     /\ ~batchDeleteConfirm' ]_vars

\* a batch over the selection {2, 1} (2 selected first) has completed
C2_Witness ==
  /\ dispatched = <<2, 1>>
  /\ store = {}
  /\ conversations = <<>>
  /\ selectedIds = <<>>
  /\ ~isSelectionMode
  /\ ~batchDeleteConfirm

C4_AsClaimed == Len(selectedIds) > 0 => isSelectionMode

\* a toggleSelectItem or selectAll call made while selection mode is off
CalledWhileIdle ==
  /\ ~isSelectionMode
  /\ (selectAll \/ \E id \in Ids : toggleSelectItem(id))

\* C4 (amended): "selectedIds is non-empty only if isSelectionMode is true"
\* holds initially and is kept by every step of the hook except a
\* toggleSelectItem or selectAll call made while selection mode is off,
\* which the hook does not guard against; so it holds in every state reached
\* by callers that, like the Dashboard page, make those two calls only in
\* selection mode.
C4_SelectionOnlyInSelectionMode ==
  [][ /\ Len(selectedIds') > 0 /\ ~isSelectionMode'
        => ( (Len(selectedIds) > 0 /\ ~isSelectionMode) \/ CalledWhileIdle )
    ]_vars

\* both conversations selected, in selection mode
C4_Witness ==
  /\ isSelectionMode
  /\ Len(selectedIds) = 2
  /\ Len(conversations) = 2

\* C5: a store delete is called only by confirmDelete, for the pending
\* deleteConfirm identifier, or by confirmBatchDelete (when invoked, or when
\* running on in its loop), for a member of the non-empty selection it was
\* invoked with; handleDeleteConfirm and cancelDelete call nothing, and after
\* cancelDelete the pending identifier is null.
C5_NoDeleteWithoutConfirmation ==
  [][ /\ \A k \in 1..Len(called') :
           called'[k].op = "deleteConversation"
             => \/ /\ confirmDelete
                   /\ deleteConfirm # Null
                   /\ called'[k].id = deleteConfirm
                \/ /\ confirmBatchDelete
                   /\ Has(selectedIds, called'[k].id)
                \/ \E c \in Conts :
                     /\ confirmBatchDeleteResume(c, TRUE)
                     /\ Has(c.sel, called'[k].id)
      /\ ((\E id \in Ids : handleDeleteConfirm(id))
            => called' = <<>> /\ UNCHANGED <<store, pending, conversations>>)
      /\ (cancelDelete
            => /\ called' = <<>>
               /\ UNCHANGED <<store, pending, conversations>>
               /\ deleteConfirm' = Null) ]_vars

\* confirmDelete has just called the store for the pending identifier
C5_Witness ==
  /\ called = <<Delete(1)>>
  /\ deleteConfirm = 1
  /\ 1 \in store

\* C6: confirmDelete with no pending identifier changes nothing and calls
\* nothing; with a pending identifier it has set viewingConversation and
\* selectedConversationId to null by the time it calls the store, and when
\* the store call has returned, successfully or not, deleteConfirm is null.
C6_ConfirmDeleteCleansUp ==
  [][ /\ (confirmDelete /\ deleteConfirm = Null
            => UNCHANGED <<hook, store, pending>>
               /\ called' = <<>> /\ dispatched' = <<>>)
      /\ (confirmDelete /\ deleteConfirm # Null
            => /\ called' = <<Delete(deleteConfirm)>>
               /\ viewingConversation' = Null
               /\ selectedConversationId' = Null)
      /\ \A c \in Conts, ok \in BOOLEAN :
           confirmDeleteResume(c, ok) => deleteConfirm' = Null ]_vars

\* the delete of 2 is in flight, issued with the viewing slot cleared
C6_Witness ==
  /\ called = <<Delete(2)>>
  /\ deleteConfirm = 2
  /\ viewingConversation = Null
  /\ selectedConversationId = Null
  /\ \E c \in Conts : c.kind = "delete" /\ c.id = 2

\* C7: a confirmBatchDelete invocation has exactly one store delete
\* outstanding while it is suspended; each of its steps issues at most one,
\* the next identifier's only when the previous one's has returned
\* successfully; and it changes the cached list or broadcasts only in the
\* step in which the delete of the last identifier returned.
C7_BatchDeletesSequentially ==
  [][ /\ \A c \in BagToSet(pending') :
           c.kind = "batch" => c.issued = c.returned + 1
      /\ (confirmBatchDelete => Len(called') <= 1)
      /\ \A c \in Conts, ok \in BOOLEAN :
           c.kind = "batch" /\ confirmBatchDeleteResume(c, ok)
             => /\ Len(called') <= 1
                /\ (called' # <<>>
                      => ok /\ called' = <<Delete(c.sel[c.returned + 2])>>)
                /\ (conversations' # conversations \/ dispatched' # <<>>
                      => c.returned + 1 = Len(c.sel)) ]_vars

\* the second delete of a batch is in flight, the first has returned, and
\* the cache still lists both
C7_Witness ==
  /\ \E c \in Conts :
       /\ c.kind = "batch" /\ c.issued = 2 /\ c.returned = 1
       /\ called = <<Delete(c.sel[2])>>
       /\ c.sel[1] \notin store
  /\ Len(conversations) = 2
  /\ dispatched = <<>>

\* C8: confirmBatchDelete invoked with an empty selection calls nothing,
\* broadcasts nothing and leaves conversations, isSelectionMode, selectedIds
\* and batchDeleteConfirm as they were.
C8_EmptyBatchIsNoOp ==
  [][ confirmBatchDelete /\ Len(selectedIds) = 0
        => /\ called' = <<>>
           /\ dispatched' = <<>>
           /\ UNCHANGED <<conversations, isSelectionMode, selectedIds,
                          batchDeleteConfirm, store, pending>> ]_vars

\* the dialog is open over an empty selection, nothing called or in flight:
\* the state confirmBatchDelete leaves as it is
C8_Witness ==
  /\ batchDeleteConfirm
  /\ isSelectionMode
  /\ selectedIds = <<>>
  /\ Len(conversations) > 0
  /\ called = <<>>
  /\ pending = EmptyBag

\* C9: when the store calls of a confirmBatchDelete invoked with a non-empty
\* selection have returned (the last one successfully, or one of them with a
\* failure), batchDeleteConfirm is false.
C9_BatchClosesDialog ==
  [][ \A c \in Conts, ok \in BOOLEAN :
        c.kind = "batch" /\ (~ok \/ c.returned + 1 = Len(c.sel))
          /\ confirmBatchDeleteResume(c, ok)
          => ~batchDeleteConfirm' ]_vars

\* a batch over {2, 1} deleted 2 and failed on 1: the dialog is closed
C9_Witness ==
  /\ store = {1}
  /\ conversations = <<1, 2>>
  /\ selectedIds = <<2, 1>>
  /\ ~batchDeleteConfirm
  /\ pending = EmptyBag

\* C10: if the batch confirmation dialog is open then selection mode is on.
C10_DialogOnlyInSelectionMode == batchDeleteConfirm => isSelectionMode

\* C11: whenever a refreshConversations call has been started and its store
\* response has not been processed yet, isLoading is true, also when
\* refreshConversations was called again before an earlier call completed.
C11_LoadingWhileRefreshing ==
  (\E c \in Conts : c.kind = "refresh") => isLoading

\* C12: the store answers a refreshConversations call with the list it
\* holds, or with a failure; when the answer reaches the call, the cached
\* list becomes that list, or the empty list on a failure, whatever it was
\* before, and isLoading becomes false.  So with several calls in flight the
\* cached list is each time that of the answer processed last, in whatever
\* order the calls were started.
C12_RefreshReplacesCache ==
  [][ /\ \A c \in Conts :
           StoreGetAll(c, TRUE)
             => [c EXCEPT !.returned = 1, !.res = "ok",
                          !.data = ListOf(store)] \in BagToSet(pending')
      /\ \A c \in Conts :
           refreshResume(c)
             => /\ (c.res = "ok" => conversations' = c.data)
                /\ (c.res = "err" => conversations' = <<>>)
                /\ ~isLoading' ]_vars

\* two calls overlapped: one has completed with the store's list, the
\* failure that answers the other has not been processed yet
C12_Witness ==
  /\ conversations = <<1, 2>>
  /\ ~isLoading
  /\ \E c \in Conts : c.kind = "refresh" /\ c.res = "err"

\* C13: when handleDownloadConversation is called for a conversation and the
\* export throws, then on return the conversation's identifier is not in
\* downloadedConversations and the call has armed no timer.
C13_FailedDownloadLeavesNoMark ==
  [][ \A id \in Ids :
        handleDownloadConversation(id, TRUE)
          => id \notin downloadedConversations' /\ timers' = timers ]_vars

\* a download of 2 succeeded and then a download of 1 failed: 1 is not
\* marked and the only timer armed is that of 2
C13_Witness ==
  /\ downloadedConversations = {2}
  /\ timers = <<MarkTimer(2)>>
  /\ ~isDownloaded

\* C14: when handleDownload is called with a conversation and the export
\* fails, isDownloaded is not true when the call returns.
C14_NoSuccessOnFailure ==
  [][ \A id \in Ids : handleDownload(id, TRUE) => ~isDownloaded' ]_vars

\* C15: a successful download's mark stays until the timer armed by that
\* download fires: when a timer fires, every conversation that still has a
\* timer armed by a successful download (such as a second download of the
\* same conversation, started before this timer fired) is still in
\* downloadedConversations afterwards.
C15_MarkedUntilTimerFires ==
  [][ timerFires
        => \A k \in 1..Len(timers') :
             timers'[k].clears = "downloadedConversations"
               => timers'[k].id \in downloadedConversations' ]_vars

\* C16: toggleSelectionMode flips isSelectionMode and leaves selectedIds
\* empty, whatever the mode and the selection were before the call.
C16_ToggleFlipsAndClears ==
  [][ toggleSelectionMode
        => /\ isSelectionMode' = ~isSelectionMode
           /\ selectedIds' = <<>> ]_vars

\* selection mode is on (only toggleSelectionMode switches it on) with
\* nothing selected, over a loaded list
C16_Witness ==
  /\ isSelectionMode
  /\ selectedIds = <<>>
  /\ Len(conversations) = 2
  /\ ~batchDeleteConfirm

\* C17: handleBatchDeleteConfirm sets batchDeleteConfirm to true when the
\* selection is non-empty and leaves all state unchanged when it is empty;
\* in both cases it calls nothing and leaves selectedIds, isSelectionMode
\* and the cached list as they were.
C17_BatchDialogNeedsSelection ==
  [][ handleBatchDeleteConfirm
        => /\ (Len(selectedIds) > 0 => batchDeleteConfirm')
           /\ (Len(selectedIds) = 0 => UNCHANGED hook)
           /\ called' = <<>> /\ dispatched' = <<>>
           /\ UNCHANGED <<selectedIds, isSelectionMode, conversations,
                          store, pending>> ]_vars

\* the dialog is open (only handleBatchDeleteConfirm opens it) over a
\* selection of two, nothing called
C17_Witness ==
  /\ batchDeleteConfirm
  /\ Len(selectedIds) = 2
  /\ isSelectionMode
  /\ called = <<>>
  /\ pending = EmptyBag

\* what the claim says becomes of one character of the title
Sanitized(ch) ==
  IF ch \in Digits \/ Has(Lowers, ch) THEN ch
  ELSE IF Has(Uppers, ch)
       THEN Lowers[CHOOSE i \in 1..26 : Uppers[i] = ch]
       ELSE "_"

\* C18: the name generateFilename returns for a title is ".md" preceded by
\* min(len(title), 16) characters, the k-th of which is the k-th character
\* of the title if that is a lower-case letter or a digit, its lower-case
\* form if it is an upper-case letter, and "_" otherwise; so all of them
\* are in [a-z0-9_].
C18_FilenameSanitized ==
  filename # <<>>
    => LET title == exported.title
           n == IF Len(title) < 16 THEN Len(title) ELSE 16
       IN /\ Len(filename) = n + 3
          /\ SubSeq(filename, n + 1, n + 3) = <<".", "m", "d">>
          /\ \A k \in 1..n :
               /\ filename[k] = Sanitized(title[k])
               /\ \/ filename[k] \in Digits \cup {"_"}
                  \/ Has(Lowers, filename[k])

\* "Hello, World! 2024" has been turned into "hello__world__20.md"
C18_Witness ==
  /\ exported.title = ExampleTitle
  /\ filename = <<"h", "e", "l", "l", "o", "_", "_", "w", "o", "r", "l", "d",
                  "_", "_", "2", "0", ".", "m", "d">>

RECURSIVE Lines(_)
\* the lines of a text: what stands before each line break, and what
\* follows the last one if anything does
Lines(text) ==
  IF text = <<>> THEN <<>>
  ELSE IF \E k \in 1..Len(text) : text[k] = "\n"
       THEN LET k == CHOOSE i \in 1..Len(text) :
                       /\ text[i] = "\n"
                       /\ \A j \in 1..(i - 1) : text[j] # "\n"
            IN <<SubSeq(text, 1, k - 1)>>
                 \o Lines(SubSeq(text, k + 1, Len(text)))
       ELSE <<text>>

\* "## ROLE: content"
MessageText(message) ==
  <<"## ", toUpperCase(message.role), ": ">> \o message.content

\* the document, line by line, as the claim describes it
LineShape ==
  LET lines == Lines(markdown)
      n == Len(exported.messages)
  IN /\ lines[1] = <<"# ">> \o exported.title
     /\ \E k \in 1..Len(lines) : lines[k] = <<"**Messages:** ", ToString(n)>>
     /\ \E r \in 1..Len(lines) :
          /\ lines[r] = <<"---">>
          /\ Len(lines) = r + 2 * n
          /\ \A i \in 1..n :
               /\ lines[r + 2 * i - 1] = <<>>
               /\ lines[r + 2 * i] = MessageText(exported.messages[i])

\* C19 as claimed: for every conversation with at least one message the
\* document starts with the line "# <title>", has the line "**Messages:** n"
\* and, after the horizontal rule, one line "## ROLE: content" per message
\* in order, with one blank line between consecutive ones and none after
\* the last.
C19_AsClaimed ==
  markdown # <<>> /\ Len(exported.messages) >= 1 => LineShape

RECURSIVE Blocks(_)
\* the messages' texts, each ended by a line break, with one more line
\* break between consecutive ones
Blocks(messages) ==
  IF messages = <<>> THEN <<>>
  ELSE MessageText(Head(messages)) \o <<"\n">>
         \o (IF Len(messages) > 1 THEN <<"\n">> ELSE <<>>)
         \o Blocks(Tail(messages))

SingleLine(str) == \A k \in 1..Len(str) : str[k] # "\n"

\* C19 (amended): for every conversation with at least one message the
\* document starts with "# <title>" and a line break, has
\* "**Messages:** n" on a line of its own, and ends, after the horizontal
\* rule and a blank line, with the texts "## ROLE: content" of the messages
\* in order, each followed by a line break and consecutive ones separated
\* by one more line break.  A content is copied as it is, line breaks
\* included, so the document is the one the claim describes line by line
\* when no content has a line break.
C19_MessageBlocks ==
  markdown # <<>> /\ Len(exported.messages) >= 1
    => LET n == Len(exported.messages)
           start == <<"# ">> \o exported.title \o <<"\n">>
           count == <<"\n", "**Messages:** ", ToString(n), "\n">>
           body == <<"\n", "---", "\n", "\n">> \o Blocks(exported.messages)
           len == Len(markdown)
       IN /\ SubSeq(markdown, 1, Len(start)) = start
          /\ \E k \in 1..len : SubSeq(markdown, k, k + 3) = count
          /\ SubSeq(markdown, len - Len(body) + 1, len) = body
          /\ ((\A i \in 1..n : SingleLine(exported.messages[i].content))
                => LineShape)

\* a conversation whose first message has two lines has been turned into
\* its document
C19_Witness ==
  /\ markdown # <<>>
  /\ Len(exported.messages) = 2
  /\ exported.messages[1].content = <<"a", "\n", "b">>
  /\ exported.messages[2].content = <<"H", "e", "l", "l", "o">>

\* C20: every "conversationDeleted" event is dispatched by a confirmDelete
\* or confirmBatchDelete invocation running on after its store delete of
\* the event's identifier has succeeded (for a batch: after the deletes of
\* all its identifiers have), so the identifier is no longer in the store;
\* an invocation whose store delete failed dispatches nothing, and no other
\* step dispatches anything.
C20_BroadcastOnlyAfterDelete ==
  [][ /\ \A k \in 1..Len(dispatched') :
           /\ dispatched'[k] \notin store'
           /\ \/ \E c \in Conts :
                    /\ confirmDeleteResume(c, TRUE)
                    /\ c.id = dispatched'[k]
              \/ \E c \in Conts :
                    /\ confirmBatchDeleteResume(c, TRUE)
                    /\ c.returned + 1 = Len(c.sel)
                    /\ Has(c.sel, dispatched'[k])
                    /\ \A i \in 1..Len(c.sel) : c.sel[i] \notin store'
      /\ \A c \in Conts :
           confirmDeleteResume(c, FALSE) \/ confirmBatchDeleteResume(c, FALSE)
             => dispatched' = <<>> ]_vars

\* the deletion of 2 has just been broadcast, 1 having been deleted before
C20_Witness ==
  /\ dispatched = <<2>>
  /\ store = {}
  /\ conversations = <<>>

\* C21: whenever no refresh and no delete is in flight, every conversation
\* in the cached list is still in the store.
C21_CacheWithinStore ==
  pending = EmptyBag
    => \A k \in 1..Len(conversations) : conversations[k] \in store

\* C22: every identifier in selectedIds is that of a conversation in the
\* cached list.
C22_SelectionWithinCache ==
  \A k \in 1..Len(selectedIds) : Has(conversations, selectedIds[k])

\* C23: when the store delete of a confirmDelete invocation returns while
\* deleteConfirm holds another identifier than the one the invocation was
\* started with (handleDeleteConfirm was called in between), deleteConfirm
\* keeps that identifier; and what a successful invocation removes from the
\* cached list and broadcasts is the identifier it was started with.
C23_CompletionKeepsNewPending ==
  [][ \A c \in Conts, ok \in BOOLEAN :
        c.kind = "delete" /\ confirmDeleteResume(c, ok)
          => /\ (deleteConfirm # c.id => deleteConfirm' = deleteConfirm)
             /\ (ok => /\ conversations' = FilterOut(conversations, c.id)
                       /\ dispatched' = <<c.id>>) ]_vars
====
